---- MODULE Spec2Model ----
(***************************************************************************)
(* The segment-index box codec (src/mp4box/sidx.rs) and the decoder of the *)
(* fragment-extension container (src/mp4box/mvex.rs) as one state machine. *)
(*                                                                         *)
(* Unsigned integers of the program are bit vectors, most significant bit  *)
(* first, of the width of their Rust type (u8: 8 bits, u32: 32 bits, ...), *)
(* so that casts, shifts and masks lose exactly the bits they lose in the  *)
(* program.  Streams are sequences of bytes (0..255).  Stream positions    *)
(* and box sizes are small naturals.                                       *)
(***************************************************************************)
EXTENDS Integers, Sequences, FiniteSets, TLC

VARIABLES
    scenario,       \* which call sequence runs: "write_read", "read_write", "mvex"
    input,          \* the value or the layout the run was started from (never changes)
    stream,         \* the bytes behind the reader
    size,           \* read_box's size argument
    cursor,         \* the reader's stream position
    pc,             \* the position of the running call
    start,          \* read_box's local start
    fields,         \* SidxBox::read_box: the fixed fields decoded so far
    reference_count,\* SidxBox::read_box: the count read from the stream
    references,     \* SidxBox::read_box: the Vec of records being filled
    header,         \* MvexBox::read_box: the child header of this iteration
    mehd,           \* MvexBox::read_box: Option<MehdBox>
    trex,           \* MvexBox::read_box: Vec<TrexBox>
    result,         \* what read_box returned
    written,        \* the bytes write_box appended to its writer
    ret             \* what write_box returned

vars == <<scenario, input, stream, size, cursor, pc, start, fields,
          reference_count, references, header, mehd, trex, result, written, ret>>

(***************************************************************************)
(* Bounds of the model.                                                    *)
(***************************************************************************)
MaxRefs == 2
MaxChildren == 3
MaxTrex == 4

(***************************************************************************)
(* Fixed-width unsigned integers.                                          *)
(***************************************************************************)
Zeros(n) == [i \in 1..n |-> 0]

\* 2^n for n in 0..30.
PowersOfTwo ==
    << 1, 2, 4, 8, 16, 32, 64, 128, 256, 512, 1024, 2048, 4096, 8192, 16384, 32768,
       65536, 131072, 262144, 524288, 1048576, 2097152, 4194304, 8388608, 16777216,
       33554432, 67108864, 134217728, 268435456, 536870912, 1073741824 >>
Pow2(n) == PowersOfTwo[n + 1]

\* The natural n (below 2^31) as an unsigned integer of w bits.
Bits(n, w) == [i \in 1..w |-> IF w - i > 30 THEN 0 ELSE (n \div Pow2(w - i)) % 2]

\* The value of a bit vector (used only where it is below 2^31).
RECURSIVE ValUpTo(_, _)
ValUpTo(b, k) == IF k = 0 THEN 0 ELSE 2 * ValUpTo(b, k - 1) + b[k]
Val(b) == ValUpTo(b, Len(b))

\* Rust's `x as uW` between unsigned types: zero-extend or keep the low w bits.
Cast(b, w) ==
    IF Len(b) >= w THEN SubSeq(b, Len(b) - w + 1, Len(b)) ELSE Zeros(w - Len(b)) \o b

\* Rust's <<, >>, & and | on one unsigned type (shift amounts below the width).
Shl(b, k) == SubSeq(b, k + 1, Len(b)) \o Zeros(k)
Shr(b, k) == Zeros(k) \o SubSeq(b, 1, Len(b) - k)
BitAnd(a, b) == [i \in 1..Len(a) |-> a[i] * b[i]]
BitOr(a, b) == [i \in 1..Len(a) |-> IF a[i] + b[i] > 0 THEN 1 ELSE 0]

\* byteorder's BigEndian writers and readers.
to_be_bytes(b) == [i \in 1..(Len(b) \div 8) |-> Val(SubSeq(b, 8 * (i - 1) + 1, 8 * i))]
from_be_bytes(bytes) ==
    [i \in 1..(8 * Len(bytes)) |-> Bits(bytes[((i - 1) \div 8) + 1], 8)[((i - 1) % 8) + 1]]

\* Whether n bytes can be read at position pos, and those bytes.
can_read(s, pos, n) == pos + n <= Len(s)
read_exact(s, pos, n) == SubSeq(s, pos + 1, pos + n)

(***************************************************************************)
(* The box header: a 4-byte size and a 4-byte type tag.                    *)
(***************************************************************************)
HEADER_SIZE == 8

BoxType_SidxBox == <<115, 105, 100, 120>>
BoxType_MvexBox == <<109, 118, 101, 120>>
BoxType_MehdBox == <<109, 101, 104, 100>>
BoxType_TrexBox == <<116, 114, 101, 120>>
BoxType_FreeBox == <<102, 114, 101, 101>>

BoxHeader_write(name, sz) == to_be_bytes(Bits(sz, 32)) \o name

BoxHeader_read(s, pos) ==
    [name |-> read_exact(s, pos + 4, 4), size |-> Val(from_be_bytes(read_exact(s, pos, 4)))]

box_start(pos) == pos - HEADER_SIZE

(***************************************************************************)
(* SidxBox::get_size and SidxBox::write_box.                               *)
(***************************************************************************)
\* get_size without the version's two 64-bit fields.
SidxBox_get_size_v0(b) == HEADER_SIZE + (4 + 1 * 2) * 4 + (12 * Len(b.references))

SidxBox_get_size(b) ==
    HEADER_SIZE
        + (4 + (IF Val(b.version) = 1 THEN 2 ELSE 1) * 2) * 4
        + (12 * Len(b.references))

reference_type_and_size(reference) ==
    BitOr(Shl(Cast(reference.reference_type, 32), 31),
          BitAnd(reference.referenced_size, Bits(2147483647, 32)))

starts_with_sap_and_sap_type_and_delta(reference) ==
    BitOr(BitOr(Shl(Cast(reference.starts_with_sap, 32), 31),
                Shl(Cast(reference.sap_type, 32), 28)),
          BitAnd(reference.sap_delta_time, Bits(268435455, 32)))

write_reference(reference) ==
    to_be_bytes(reference_type_and_size(reference))
        \o to_be_bytes(reference.subsegment_duration)
        \o to_be_bytes(starts_with_sap_and_sap_type_and_delta(reference))

RECURSIVE write_references(_)
write_references(refs) ==
    IF Len(refs) = 0 THEN <<>>
    ELSE write_reference(Head(refs)) \o write_references(Tail(refs))

SidxBox_write_box(b) ==
    LET sz == SidxBox_get_size(b)
        bytes ==
            BoxHeader_write(BoxType_SidxBox, sz)
            \o to_be_bytes(b.version)
            \o to_be_bytes(Bits(0, 24))
            \o to_be_bytes(b.reference_id)
            \o to_be_bytes(b.timescale)
            \o (IF Val(b.version) = 1
                THEN to_be_bytes(b.earliest_presentation_time)
                         \o to_be_bytes(b.first_offset)
                ELSE to_be_bytes(Cast(b.earliest_presentation_time, 32))
                         \o to_be_bytes(Cast(b.first_offset, 32)))
            \o to_be_bytes(Bits(0, 16))
            \o to_be_bytes(Bits(Len(b.references) % 65536, 16))
            \o write_references(b.references)
    IN [bytes |-> bytes, ret |-> sz]

(***************************************************************************)
(* The values write_box is called with.                                    *)
(***************************************************************************)
SidxReference(rt, rs, sd, sws, st, sdt) ==
    [reference_type |-> rt, referenced_size |-> rs, subsegment_duration |-> sd,
     starts_with_sap |-> sws, sap_type |-> st, sap_delta_time |-> sdt]

\* Records inside their declared bit widths (1, 31, 32, 1, 3 and 28 bits) ...
ReferencesInRange ==
    { SidxReference(Bits(1, 8), Bits(50, 32), Bits(1000, 32), Bits(0, 8), Bits(0, 8), Bits(0, 32)),
      SidxReference(Bits(0, 8), Bits(2147483647, 32), Bits(1, 1) \o Bits(7, 31),
                    Bits(1, 8), Bits(7, 8), Bits(268435455, 32)) }

\* ... and records the u8 and u32 fields can hold but the wire cannot.
ReferencesOutOfRange ==
    { SidxReference(Bits(0, 8), Bits(50, 32), Bits(1000, 32), Bits(0, 8), Bits(8, 8), Bits(0, 32)),
      SidxReference(Bits(2, 8), Bits(50, 32), Bits(1000, 32), Bits(2, 8), Bits(1, 8), Bits(3, 32)),
      SidxReference(Bits(0, 8), Bits(1, 1) \o Bits(50, 31), Bits(1000, 32),
                    Bits(0, 8), Bits(0, 8), Bits(268435456 + 5, 32)) }

SeqsUpTo(S, n) == UNION { [1..k -> S] : k \in 0..n }

SidxBoxes ==
    { [version |-> Bits(v, 8), flags |-> Bits(f, 32), reference_id |-> Bits(1, 32),
       timescale |-> Bits(1000, 32), earliest_presentation_time |-> e,
       first_offset |-> Bits(100, 64), references |-> r] :
        v \in {0, 1}, f \in {0, 1},
        e \in {Bits(0, 64), Bits(1, 32) \o Bits(9, 32)},
        r \in SeqsUpTo(ReferencesInRange \cup ReferencesOutOfRange, MaxRefs) }

(***************************************************************************)
(* The byte strings read_box is called on: the layout of the documented    *)
(* sample (tests::test_read_sidx_box), with every field free.              *)
(***************************************************************************)
SampleData ==
    << 0, 0, 0, 44,
       115, 105, 100, 120,
       0,
       0, 0, 0,
       0, 0, 0, 1,
       0, 0, 3, 232,
       0, 0, 0, 0,
       0, 0, 0, 100,
       0, 0,
       0, 1,
       128, 0, 0, 50,
       0, 0, 3, 232,
       0, 0, 0, 0 >>

\* The three 32-bit words of a record on the wire.
WireRecords ==
    { <<Bits(1, 1) \o Bits(50, 31), Bits(1000, 32), Bits(0, 32)>>,
      <<Bits(2147483647, 32), Bits(1, 1) \o Bits(2147483647, 31),
        Bits(1, 1) \o Bits(2147483647, 31)>>,
      <<Bits(0, 32), Bits(0, 32), Bits(1, 1) \o Bits(5, 3) \o Bits(3, 28)>> }

\* The bytes that follow the box in the stream: nothing, or the next box.
NextBox == BoxHeader_write(BoxType_FreeBox, 12) \o <<1, 2, 3, 4>>

SidxLayouts ==
    { [version |-> v, flags |-> f, reference_id |-> Bits(1, 32),
       timescale |-> Bits(1000, 32),
       earliest_presentation_time |-> IF v = 1 THEN Bits(1, 32) \o Bits(9, 32) ELSE Bits(0, 64),
       first_offset |-> Bits(100, 64),
       records |-> r, count_extra |-> c, delta |-> d, lead |-> b, tail |-> t] :
        v \in {0, 1}, f \in {0, 1}, r \in SeqsUpTo(WireRecords, MaxRefs),
        c \in {0, 1}, d \in {0 - 12, 0, 4}, b \in {0, 4}, t \in {<<>>, NextBox} }

RECURSIVE layout_records(_)
layout_records(rs) ==
    IF Len(rs) = 0 THEN <<>>
    ELSE to_be_bytes(Head(rs)[1]) \o to_be_bytes(Head(rs)[2]) \o to_be_bytes(Head(rs)[3])
             \o layout_records(Tail(rs))

\* The body of a segment-index box as the wire format lays it out.
layout_body(l) ==
    <<l.version>> \o to_be_bytes(Bits(l.flags, 24))
        \o to_be_bytes(l.reference_id) \o to_be_bytes(l.timescale)
        \o (IF l.version = 1
            THEN to_be_bytes(l.earliest_presentation_time) \o to_be_bytes(l.first_offset)
            ELSE to_be_bytes(Cast(l.earliest_presentation_time, 32))
                     \o to_be_bytes(Cast(l.first_offset, 32)))
        \o <<0, 0>> \o to_be_bytes(Bits(Len(l.records) + l.count_extra, 16))
        \o layout_records(l.records)

\* The size the box declares: the length of its layout plus delta.
layout_size(l) == HEADER_SIZE + Len(layout_body(l)) + l.delta

layout_stream(l) ==
    Zeros(l.lead)
        \o BoxHeader_write(BoxType_SidxBox, layout_size(l))
        \o layout_body(l)
        \o (IF l.delta > 0 THEN [i \in 1..l.delta |-> 170] ELSE <<>>)
        \o l.tail

(***************************************************************************)
(* The byte strings MvexBox::read_box is called on: an mvex header, a      *)
(* sequence of child boxes, and the header of the box that follows.        *)
(***************************************************************************)
TrexPayloadSize == 24

trex_payload(track_id) ==
    <<0, 0, 0, 0>> \o <<0, 0, 0, track_id>> \o <<0, 0, 0, 1>> \o Zeros(12)

Child(name, declared, payload) == [name |-> name, declared |-> declared, payload |-> payload]

\* Children whose declared size is the length of their header and payload (the
\* second trex ends with four bytes of padding) ...
ChildrenWellFormed ==
    { Child(BoxType_TrexBox, 32, trex_payload(1)),
      Child(BoxType_TrexBox, 36, trex_payload(2) \o <<9, 9, 9, 9>>),
      Child(BoxType_MehdBox, 16, <<0, 0, 0, 0>> \o <<0, 0, 0, 5>>),
      Child(BoxType_MehdBox, 20, <<1, 0, 0, 0>> \o <<0, 0, 0, 1, 0, 0, 0, 6>>),
      Child(BoxType_FreeBox, 12, <<1, 2, 3, 4>>) }

\* ... and children that declare 0, less than a header, or more than they hold.
ChildrenMalformed ==
    { Child(BoxType_TrexBox, 0, trex_payload(1)),
      Child(BoxType_MehdBox, 4, <<0, 0, 0, 0>> \o <<0, 0, 0, 5>>),
      Child(BoxType_FreeBox, 0, <<1, 2, 3, 4>>),
      Child(BoxType_FreeBox, 40, <<1, 2, 3, 4>>) }

RECURSIVE children_bytes(_)
children_bytes(cs) ==
    IF Len(cs) = 0 THEN <<>>
    ELSE BoxHeader_write(Head(cs).name, Head(cs).declared) \o Head(cs).payload
             \o children_bytes(Tail(cs))

MvexLayouts ==
    { [children |-> cs, lead |-> b] :
        cs \in SeqsUpTo(ChildrenWellFormed \cup ChildrenMalformed, MaxChildren),
        b \in {0, 4} }

\* The size the mvex box declares: its header and its children.
mvex_size(l) == HEADER_SIZE + Len(children_bytes(l.children))

mvex_stream(l) ==
    Zeros(l.lead)
        \o BoxHeader_write(BoxType_MvexBox, mvex_size(l))
        \o children_bytes(l.children)
        \o BoxHeader_write(BoxType_FreeBox, 8)

None == [tag |-> "None"]
Ok(v) == [tag |-> "Ok", value |-> v]
Err(e) == [tag |-> "Err", err |-> e]

\* Where a failed read may leave the cursor: anywhere up to the end of the stream.
after_failed_read(s, pos) == {p \in pos..(pos + 32) : p = pos \/ p <= Len(s)}

InitLocals ==
    /\ start = 0
    /\ fields = None
    /\ reference_count = 0
    /\ references = <<>>
    /\ header = None
    /\ mehd = None
    /\ trex = <<>>
    /\ result = None
    /\ written = <<>>
    /\ ret = 0

InitWriteRead ==
    /\ scenario = "write_read"
    /\ input \in SidxBoxes
    /\ stream = <<>>
    /\ size = 0
    /\ cursor = 0
    /\ pc = "sidx_write"
    /\ InitLocals

InitReadWrite ==
    /\ scenario = "read_write"
    /\ input \in SidxLayouts
    /\ stream = layout_stream(input)
    /\ size = layout_size(input)
    /\ cursor = input.lead + HEADER_SIZE
    /\ pc = "sidx_read"
    /\ InitLocals

InitMvex ==
    /\ scenario = "mvex"
    /\ input \in MvexLayouts
    /\ stream = mvex_stream(input)
    /\ size = mvex_size(input)
    /\ cursor = input.lead + HEADER_SIZE
    /\ pc = "mvex_read"
    /\ InitLocals

Init ==
    \/ InitWriteRead
    \/ InitReadWrite
    \/ InitMvex

\* tests::test_read_sidx_box's two halves, in either order: write_box into an
\* empty writer; read_box on a cursor placed after the 8-byte header, with
\* size = the length of the data.
SidxWriteBox ==
    /\ pc = "sidx_write"
    /\ LET b == IF scenario = "write_read" THEN input ELSE result.value
           w == SidxBox_write_box(b)
       IN /\ written' = w.bytes
          /\ ret' = w.ret
          /\ IF scenario = "write_read"
             THEN /\ stream' = w.bytes
                  /\ size' = Len(w.bytes)
                  /\ cursor' = HEADER_SIZE
                  /\ pc' = "sidx_read"
             ELSE /\ pc' = "done"
                  /\ UNCHANGED <<stream, size, cursor>>
    /\ UNCHANGED <<scenario, input, start, fields, reference_count, references,
                   header, mehd, trex, result>>

\* SidxBox::read_box up to the loop: the fixed fields.  Every read is a `?`:
\* the reads are contiguous, so one of them fails exactly when the stream ends
\* before the last of them does.
SidxReadFields ==
    /\ pc = "sidx_read"
    /\ LET p == cursor
           version == from_be_bytes(read_exact(stream, p, 1))
           w == IF Val(version) = 1 THEN 8 ELSE 4
           n == 12 + 2 * w + 4
       IN IF ~(can_read(stream, p, 1) /\ can_read(stream, p, n))
          THEN /\ cursor' \in after_failed_read(stream, p)
               /\ result' = Err("IoError")
               /\ pc' = "done"
               /\ start' = box_start(cursor)
               /\ UNCHANGED <<fields, reference_count>>
          ELSE /\ start' = box_start(cursor)
               /\ fields' =
                    [version |-> version,
                     flags |-> Cast(from_be_bytes(read_exact(stream, p + 1, 3)), 32),
                     reference_id |-> from_be_bytes(read_exact(stream, p + 4, 4)),
                     timescale |-> from_be_bytes(read_exact(stream, p + 8, 4)),
                     earliest_presentation_time |->
                        Cast(from_be_bytes(read_exact(stream, p + 12, w)), 64),
                     first_offset |->
                        Cast(from_be_bytes(read_exact(stream, p + 12 + w, w)), 64)]
               /\ reference_count' =
                    Val(from_be_bytes(read_exact(stream, p + 12 + 2 * w + 2, 2)))
               /\ cursor' = p + n
               /\ pc' = "sidx_refs"
               /\ UNCHANGED result
    /\ references' = <<>>
    /\ UNCHANGED <<scenario, input, stream, size, header, mehd, trex, written, ret>>

\* read_reference with sap_type masked to two bits.
read_reference_sap2(w1, w2, w3) ==
    [reference_type |-> Cast(Shr(w1, 31), 8),
     referenced_size |-> BitAnd(w1, Bits(2147483647, 32)),
     subsegment_duration |-> w2,
     starts_with_sap |-> Cast(Shr(w3, 31), 8),
     sap_type |-> Cast(BitAnd(Shr(w3, 28), Bits(3, 32)), 8),
     sap_delta_time |-> BitAnd(w3, Bits(268435455, 32))]

\* One record of a reference, unpacked from its first and third words.
read_reference(w1, w2, w3) ==
    [reference_type |-> Cast(Shr(w1, 31), 8),
     referenced_size |-> BitAnd(w1, Bits(2147483647, 32)),
     subsegment_duration |-> w2,
     starts_with_sap |-> Cast(Shr(w3, 31), 8),
     sap_type |-> Cast(BitAnd(Shr(w3, 28), Bits(7, 32)), 8),
     sap_delta_time |-> BitAnd(w3, Bits(268435455, 32))]

\* One iteration of `for _ in 0..reference_count`.
SidxReadReference ==
    /\ pc = "sidx_refs"
    /\ Len(references) < reference_count
    /\ IF ~can_read(stream, cursor, 12)
       THEN /\ cursor' \in after_failed_read(stream, cursor)
            /\ result' = Err("IoError")
            /\ pc' = "done"
            /\ UNCHANGED references
       ELSE /\ references' = Append(references,
                read_reference(from_be_bytes(read_exact(stream, cursor, 4)),
                               from_be_bytes(read_exact(stream, cursor + 4, 4)),
                               from_be_bytes(read_exact(stream, cursor + 8, 4))))
            /\ cursor' = cursor + 12
            /\ UNCHANGED <<result, pc>>
    /\ UNCHANGED <<scenario, input, stream, size, start, fields, reference_count,
                   header, mehd, trex, written, ret>>

skip_bytes_to(pos) == pos

\* After the loop: skip to the declared end and return the box.
SidxReadFinish ==
    /\ pc = "sidx_refs"
    /\ Len(references) = reference_count
    /\ cursor' = skip_bytes_to(start + size)
    /\ result' = Ok([version |-> fields.version,
                     flags |-> fields.flags,
                     reference_id |-> fields.reference_id,
                     timescale |-> fields.timescale,
                     earliest_presentation_time |-> fields.earliest_presentation_time,
                     first_offset |-> fields.first_offset,
                     references |-> references])
    /\ pc' = IF scenario = "read_write" THEN "sidx_write" ELSE "done"
    /\ UNCHANGED <<scenario, input, stream, size, start, fields, reference_count,
                   references, header, mehd, trex, written, ret>>

(***************************************************************************)
(* MvexBox::read_box.                                                      *)
(***************************************************************************)
\* The locals before the loop.
MvexReadBegin ==
    /\ pc = "mvex_read"
    /\ start' = box_start(cursor)
    /\ mehd' = None
    /\ trex' = <<>>
    /\ pc' = "mvex_loop"
    /\ UNCHANGED <<scenario, input, stream, size, cursor, fields, reference_count,
                   references, header, result, written, ret>>

\* `while current < end`: the child header and the check of its size.
MvexReadHeader ==
    /\ pc = "mvex_loop"
    /\ cursor < start + size
    /\ IF ~can_read(stream, cursor, HEADER_SIZE)
       THEN /\ cursor' \in after_failed_read(stream, cursor)
            /\ result' = Err("IoError")
            /\ pc' = "done"
            /\ UNCHANGED header
       ELSE LET h == BoxHeader_read(stream, cursor)
            IN /\ cursor' = cursor + HEADER_SIZE
               /\ header' = h
               /\ IF h.size > size
                  THEN /\ result' = Err("InvalidData")
                       /\ pc' = "done"
                  ELSE /\ pc' = "mvex_child"
                       /\ UNCHANGED result
    /\ UNCHANGED <<scenario, input, stream, size, start, fields, reference_count,
                   references, mehd, trex, written, ret>>

\* MehdBox::read_box: version and flags, a duration of 4 or 8 bytes by the
\* version, then the skip to the child's declared end.
MehdBox_read_box(s, pos, sz) ==
    LET st == box_start(pos)
        version == from_be_bytes(read_exact(s, pos, 1))
        w == IF Val(version) = 1 THEN 8 ELSE 4
    IN IF ~(can_read(s, pos, 4) /\ can_read(s, pos, 4 + w))
       THEN [ok |-> FALSE]
       ELSE [ok |-> TRUE,
             value |-> [version |-> version,
                        fragment_duration |->
                            Cast(from_be_bytes(read_exact(s, pos + 4, w)), 64)],
             pos |-> st + sz]

\* TrexBox::read_box: the fixed fields, then the skip to the child's declared end.
TrexBox_read_box(s, pos, sz) ==
    LET st == box_start(pos)
    IN IF ~can_read(s, pos, TrexPayloadSize)
       THEN [ok |-> FALSE]
       ELSE [ok |-> TRUE,
             value |-> [payload |-> read_exact(s, pos, TrexPayloadSize)],
             pos |-> st + sz]

\* skip_box: to the child's start plus its declared size.
skip_box(pos, sz) == box_start(pos) + sz

\* The arm BoxType::MehdBox, and `current = reader.stream_position()`.
MvexReadMehd ==
    /\ pc = "mvex_child"
    /\ header.name = BoxType_MehdBox
    /\ LET r == MehdBox_read_box(stream, cursor, header.size)
       IN IF r.ok
          THEN /\ mehd' = r.value
               /\ cursor' = r.pos
               /\ pc' = "mvex_loop"
               /\ UNCHANGED result
          ELSE /\ cursor' \in after_failed_read(stream, cursor)
               /\ result' = Err("IoError")
               /\ pc' = "done"
               /\ UNCHANGED mehd
    /\ UNCHANGED <<scenario, input, stream, size, start, fields, reference_count,
                   references, header, trex, written, ret>>

\* The arm BoxType::TrexBox, and `current = reader.stream_position()`.  A run
\* whose Vec already holds MaxTrex entries is followed no further.
MvexReadTrex ==
    /\ pc = "mvex_child"
    /\ header.name = BoxType_TrexBox
    /\ Len(trex) < MaxTrex
    /\ LET r == TrexBox_read_box(stream, cursor, header.size)
       IN IF r.ok
          THEN /\ trex' = Append(trex, r.value)
               /\ cursor' = r.pos
               /\ pc' = "mvex_loop"
               /\ UNCHANGED result
          ELSE /\ cursor' \in after_failed_read(stream, cursor)
               /\ result' = Err("IoError")
               /\ pc' = "done"
               /\ UNCHANGED trex
    /\ UNCHANGED <<scenario, input, stream, size, start, fields, reference_count,
                   references, header, mehd, written, ret>>

\* The arm `_` without its skip_box.
MvexSkipBox_NoSkip ==
    /\ pc = "mvex_child"
    /\ header.name \notin {BoxType_MehdBox, BoxType_TrexBox}
    /\ pc' = "mvex_loop"
    /\ UNCHANGED <<scenario, input, stream, size, cursor, start, fields, reference_count,
                   references, header, mehd, trex, result, written, ret>>

\* The arm `_`, and `current = reader.stream_position()`.
MvexSkipBox ==
    /\ pc = "mvex_child"
    /\ header.name \notin {BoxType_MehdBox, BoxType_TrexBox}
    /\ cursor' = skip_box(cursor, header.size)
    /\ pc' = "mvex_loop"
    /\ UNCHANGED <<scenario, input, stream, size, start, fields, reference_count,
                   references, header, mehd, trex, result, written, ret>>

\* The end of read_box without the check of trex.
MvexFinish_NoCheck ==
    /\ pc = "mvex_loop"
    /\ ~(cursor < start + size)
    /\ cursor' = skip_bytes_to(start + size)
    /\ result' = Ok([mehd |-> mehd, trex |-> trex])
    /\ pc' = "done"
    /\ UNCHANGED <<scenario, input, stream, size, start, fields, reference_count,
                   references, header, mehd, trex, written, ret>>

\* The end of read_box without the skip to the declared end.
MvexFinish_NoSkip ==
    /\ pc = "mvex_loop"
    /\ ~(cursor < start + size)
    /\ IF Len(trex) = 0
       THEN result' = Err("BoxNotFound(TrexBox)")
       ELSE result' = Ok([mehd |-> mehd, trex |-> trex])
    /\ pc' = "done"
    /\ UNCHANGED <<scenario, input, stream, size, cursor, start, fields, reference_count,
                   references, header, mehd, trex, written, ret>>

\* After the loop: the check of trex, the skip to the declared end, the box.
MvexFinish ==
    /\ pc = "mvex_loop"
    /\ ~(cursor < start + size)
    /\ IF Len(trex) = 0
       THEN /\ result' = Err("BoxNotFound(TrexBox)")
            /\ UNCHANGED cursor
       ELSE /\ cursor' = skip_bytes_to(start + size)
            /\ result' = Ok([mehd |-> mehd, trex |-> trex])
    /\ pc' = "done"
    /\ UNCHANGED <<scenario, input, stream, size, start, fields, reference_count,
                   references, header, mehd, trex, written, ret>>

Next ==
    \/ SidxWriteBox
    \/ SidxReadFields
    \/ SidxReadReference
    \/ SidxReadFinish
    \/ MvexReadBegin
    \/ MvexReadHeader
    \/ MvexReadMehd
    \/ MvexReadTrex
    \/ MvexSkipBox
    \/ MvexFinish

Spec == Init /\ [][Next]_vars

(***************************************************************************)
(* Claims about the segment-index box.                                     *)
(***************************************************************************)

\* A record whose fields fit the 1, 31, 1, 3 and 28 bits the wire gives them.
ReferenceInRange(r) ==
    /\ Val(r.reference_type) <= 1
    /\ r.referenced_size[1] = 0
    /\ Val(r.starts_with_sap) <= 1
    /\ Val(r.sap_type) <= 7
    /\ SubSeq(r.sap_delta_time, 1, 4) = Zeros(4)

\* A box whose every field fits its width on the wire (version 0 carries the
\* two times in 32 bits).
BoxInRange(b) ==
    /\ Val(b.version) \in {0, 1}
    /\ SubSeq(b.flags, 1, 8) = Zeros(8)
    /\ Val(b.version) = 0 =>
          /\ SubSeq(b.earliest_presentation_time, 1, 32) = Zeros(32)
          /\ SubSeq(b.first_offset, 1, 32) = Zeros(32)
    /\ \A i \in 1..Len(b.references) : ReferenceInRange(b.references[i])

\* C1: write_box followed by read_box on the emitted bytes returns a box
\* equal to the original in every field, flags included.
C1_RoundTripIdentity ==
    (scenario = "write_read" /\ pc = "done" /\ BoxInRange(input))
        => result = Ok(input)

\* The box write_box was called with.
WrittenBox == IF scenario = "write_read" THEN input ELSE result.value

\* C4: the number of bytes write_box appends equals get_size(), the size field
\* of the emitted header and the returned value: 8 + 24 + 12n for version 0,
\* 8 + 32 + 12n for version 1.
C4_SizeAgreement ==
    (scenario \in {"write_read", "read_write"} /\ Len(written) > 0)
        => /\ Len(written) = SidxBox_get_size(WrittenBox)
           /\ Val(from_be_bytes(SubSeq(written, 1, 4))) = Len(written)
           /\ ret = Len(written)
           /\ Len(written) =
                 8 + (IF Val(WrittenBox.version) = 1 THEN 32 ELSE 24)
                   + 12 * Len(WrittenBox.references)

C4_Witness ==
    /\ scenario = "write_read"
    /\ pc = "done"
    /\ Val(input.version) = 1
    /\ Len(input.references) = 2
    /\ Len(written) = 64

\* The i-th emitted record's k-th 32-bit word.
EmittedWord(i, k) ==
    LET fixed == IF Val(input.version) = 1 THEN 32 ELSE 24
        at == HEADER_SIZE + fixed + 12 * (i - 1) + 4 * (k - 1)
    IN from_be_bytes(SubSeq(written, at + 1, at + 4))

\* C5: in every emitted record each field occupies its own bits only: the
\* bits of a field in the emitted word are the low bits of that field, whatever
\* the other fields hold (values beyond the declared widths included).
C5_FieldIsolation ==
    (scenario = "write_read" /\ Len(written) > 0)
        => \A i \in 1..Len(input.references) :
              LET r == input.references[i]
                  w1 == EmittedWord(i, 1)
                  w3 == EmittedWord(i, 3)
              IN /\ w1[1] = r.reference_type[8]
                 /\ SubSeq(w1, 2, 32) = SubSeq(r.referenced_size, 2, 32)
                 /\ w3[1] = r.starts_with_sap[8]
                 /\ SubSeq(w3, 2, 4) = SubSeq(r.sap_type, 6, 8)
                 /\ SubSeq(w3, 5, 32) = SubSeq(r.sap_delta_time, 5, 32)

\* A byte string laid out as the documented sample: flags 0, reference_count
\* the number of records present, declared size covering exactly the fields
\* and the records.
LaidOutAsSample(l) == l.flags = 0 /\ l.count_extra = 0 /\ l.delta = 0

\* The record the wire format assigns to three words: the fields in the
\* order listed, most significant first.
RecordOfWire(w) ==
    [reference_type |-> Zeros(7) \o SubSeq(w[1], 1, 1),
     referenced_size |-> <<0>> \o SubSeq(w[1], 2, 32),
     subsegment_duration |-> w[2],
     starts_with_sap |-> Zeros(7) \o SubSeq(w[3], 1, 1),
     sap_type |-> Zeros(5) \o SubSeq(w[3], 2, 4),
     sap_delta_time |-> Zeros(4) \o SubSeq(w[3], 5, 32)]

\* The box a layout encodes.
BoxOfLayout(l) ==
    [version |-> Bits(l.version, 8),
     flags |-> Bits(l.flags, 32),
     reference_id |-> l.reference_id,
     timescale |-> l.timescale,
     earliest_presentation_time |-> l.earliest_presentation_time,
     first_offset |-> l.first_offset,
     references |-> [i \in 1..Len(l.records) |-> RecordOfWire(l.records[i])]]

\* The bytes of the box in the stream: from its header to its declared end.
BoxBytes == SubSeq(stream, input.lead + 1, input.lead + size)

\* C7: for a byte string laid out as the documented sample, read_box returns
\* the encoded field values, and write_box on the decoded box emits the
\* original bytes and returns their number; the 44-byte sample is one of them.
C7_DecodeEncodeIdentity ==
    (scenario = "read_write" /\ pc = "done" /\ LaidOutAsSample(input))
        => /\ result = Ok(BoxOfLayout(input))
           /\ written = BoxBytes
           /\ ret = Len(BoxBytes)
           /\ (BoxBytes = SampleData =>
                 /\ Val(result.value.version) = 0
                 /\ Val(result.value.reference_id) = 1
                 /\ Val(result.value.timescale) = 1000
                 /\ Val(result.value.earliest_presentation_time) = 0
                 /\ Val(result.value.first_offset) = 100
                 /\ Len(result.value.references) = 1
                 /\ Val(result.value.references[1].referenced_size) = 50
                 /\ Val(result.value.references[1].reference_type) = 1)

C7_Witness ==
    /\ scenario = "read_write"
    /\ pc = "done"
    /\ LaidOutAsSample(input)
    /\ stream = SampleData
    /\ written = SampleData
    /\ ret = 44

\* C10: the bytes read_box consumes for the fixed fields and the records lie
\* below start + size, so the final skip never moves the cursor backwards.
C10_DecodeInsideBox ==
    pc = "sidx_refs" => cursor <= start + size

(***************************************************************************)
(* Claims about the fragment-extension box.                                *)
(***************************************************************************)

\* C2: a child whose declared size exceeds the parent's remaining budget
\* (start + size minus the position of the child's header) is never handed to
\* MehdBox::read_box, TrexBox::read_box or skip_box.
C2_BoundedDescent ==
    pc = "mvex_child" => header.size <= (start + size) - box_start(cursor)

IsTrex(c) == c.name = BoxType_TrexBox
IsRecognized(c) == c.name \in {BoxType_MehdBox, BoxType_TrexBox}

\* The input holds no trex child.
NoTrexChildren(l) == \A i \in 1..Len(l.children) : ~IsTrex(l.children[i])

\* C3, as claimed: a returned MvexBox has at least one trex, and an input with
\* no trex child makes read_box return BoxNotFound(TrexBox).
C3_NonEmptyInvariant ==
    (scenario = "mvex" /\ pc = "done")
        => /\ result.tag = "Ok" => Len(result.value.trex) >= 1
           /\ NoTrexChildren(input) => result = Err("BoxNotFound(TrexBox)")

\* C3, amended: a returned MvexBox has at least one trex; on an input with no
\* trex child every return of read_box is an error, and the return that
\* follows the end of the child loop is BoxNotFound(TrexBox).
C3_NonEmptyAmended ==
    [][(scenario = "mvex" /\ pc # "done" /\ pc' = "done")
          => /\ result'.tag = "Ok" => Len(result'.value.trex) >= 1
             /\ NoTrexChildren(input) =>
                   /\ result'.tag = "Err"
                   /\ (pc = "mvex_loop" /\ ~(cursor < start + size))
                         => result' = Err("BoxNotFound(TrexBox)")]_vars

C3_Witness ==
    /\ scenario = "mvex"
    /\ pc = "done"
    /\ Len(input.children) >= 2
    /\ NoTrexChildren(input)
    /\ result = Err("BoxNotFound(TrexBox)")

\* A well-formed mvex range: every child declares the length it has, and one
\* of them at least is a trex.
WellFormedMvex(l) ==
    /\ \A i \in 1..Len(l.children) : l.children[i] \in ChildrenWellFormed
    /\ ~NoTrexChildren(l)

\* What the recognized children of a range decode to: the trex children in
\* order, and the last mehd child if there is one.
TrexOf(c) == [payload |-> SubSeq(c.payload, 1, TrexPayloadSize)]
MehdOf(c) ==
    [version |-> Bits(c.payload[1], 8),
     fragment_duration |-> Cast(from_be_bytes(SubSeq(c.payload, 5, Len(c.payload))), 64)]

RECURSIVE DecodedChildren(_, _)
DecodedChildren(cs, acc) ==
    IF Len(cs) = 0 THEN acc
    ELSE DecodedChildren(Tail(cs),
            IF IsTrex(Head(cs))
            THEN [acc EXCEPT !.trex = Append(@, TrexOf(Head(cs)))]
            ELSE [acc EXCEPT !.mehd = MehdOf(Head(cs))])

\* C6: on a well-formed range read_box succeeds, and what it returns is what
\* the range's recognized children decode to, the unrecognized ones removed:
\* the trex children in order and value.
C6_UnknownChildTolerance ==
    (scenario = "mvex" /\ pc = "done" /\ WellFormedMvex(input))
        => result = Ok(DecodedChildren(SelectSeq(input.children, IsRecognized),
                                       [mehd |-> None, trex |-> <<>>]))

C6_Witness ==
    /\ scenario = "mvex"
    /\ pc = "done"
    /\ WellFormedMvex(input)
    /\ Len(input.children) = 3
    /\ IsTrex(input.children[1])
    /\ ~IsRecognized(input.children[2])
    /\ IsTrex(input.children[3])
    /\ input.children[1] # input.children[3]
    /\ result.tag = "Ok"
    /\ Len(result.value.trex) = 2

\* Where the header of the box read_box was called on starts.
BoxStart == IF scenario = "write_read" THEN 0 ELSE input.lead

\* C8: after read_box returned Ok, of SidxBox and of MvexBox alike, the cursor
\* is at the start of the box plus its declared size.
C8_CursorAtDeclaredEnd ==
    result.tag = "Ok" => cursor = BoxStart + size

C8_Witness ==
    /\ scenario = "mvex"
    /\ result.tag = "Ok"
    /\ input.lead = 4
    /\ \E i \in 1..Len(input.children) : input.children[i] \in ChildrenMalformed
    /\ cursor = 4 + size

\* C9: every iteration of the child loop leaves the cursor beyond the
\* position where the iteration's child header started.
C9_LoopProgress ==
    [][(pc = "mvex_child" /\ pc' = "mvex_loop") => cursor' > box_start(cursor)]_vars
====
